---- MODULE Spec2Model ----
(***************************************************************************)
(* Telemetry ingestion pipeline of forza_core: the UDP receiver's bounded  *)
(* queue, the consumer loop with the race-state monitor and the batch      *)
(* buffer, the 100 ms flush ticker, the background save tasks with retry,  *)
(* the session calls of the control API, and the supervisor's startup and   *)
(* shutdown sequence; and, as a program of its own, the view model of the  *)
(* desktop front end.                                                      *)
(*                                                                         *)
(* Time is counted in ticks of 0.5 s, the unit of the retry backoff.  The  *)
(* code only ever compares time.time() - _last_flush_time with             *)
(* flush_interval_sec, so the model keeps that difference, saturated at    *)
(* the interval.  The ticker's asyncio.sleep(0.1) is shorter than a tick:  *)
(* the ticker may wake any number of times between two ticks.              *)
(***************************************************************************)
EXTENDS Integers, Sequences, FiniteSets, Bags

\* ---- bounds of the model ------------------------------------------------
MaxDatagrams == 2
BufferSize == 2
QueueCapacity == 2
MaxDropped == 2
MaxFailures == 3
\* Environment events in one run: datagrams, API requests, save failures and
\* exceptions raised in the consumer.
MaxInputs == 4
\* Calls the view makes on the view model in one run.
MaxVmCalls == 5

\* ---- program constants ---------------------------------------------------
\* flush_interval_sec (1.0 s) and the warning interval (1.0 s), in ticks.
FlushIntervalTicks == 2
WarnIntervalTicks == 2
max_retries == 3
BackoffUnitTicks == 1

\* Python's None in the integer-typed optional fields (session ids).
None == -1

\* Datagrams put on the wire, as <<length, is_race_on>>: both accepted layouts,
\* an unsupported length, and each kind of flag (is_race_on is a raw s32 the
\* decoder does not validate, so a value other than 0 and 1 is among them).
WireDatagrams == {<<324, 1>>, <<311, 0>>, <<324, 2>>, <<100, 1>>}

\* The ids create_session may return: the interface promises an int.
SessionIds == {0, 1}

\* The control API requests that can be in progress at the same time.
CallerIds == {1, 2}

VARIABLES
    queue,               \* asyncio.Queue of received datagrams
    transport_open,      \* the UDP transport accepts datagrams
    received,            \* number of datagrams delivered to datagram_received
    enqueued,            \* number of datagrams put_nowait accepted
    since_warning,       \* time.time() - _last_error_log_time, saturated
    warned,              \* the latest datagram_received logged a warning
    buffer,              \* IngestionService._buffer
    last_is_race_on,     \* RaceStateMonitor._last_is_race_on
    running,             \* IngestionService._running
    time_since,          \* time.time() - _last_flush_time, saturated
    active_saves,        \* IngestionService._active_saves (task ids)
    tasks,               \* every save task ever spawned, by id
    current_session_id,  \* IngestionService._current_session_id
    session_lock,        \* IngestionService._session_lock is held
    api_status,          \* status of the latest answer of POST /session/start
    insert_failed,       \* create_session raised in the latest /session/start
    consumer,            \* position of the run() task
    sup,                 \* position of main()
    gathered,            \* the tasks flush() handed to asyncio.gather
    sink,                \* bag of the batches save_batch inserted
    prev_race,           \* is_race_on of the record before the latest one
    cur_race,            \* is_race_on of the latest record the monitor saw
    events,              \* what detect_events returned for the latest record
    appended,            \* ids of the packets appended to the buffer
    failures,            \* number of save_batch calls that raised
    inputs,              \* environment events so far
    uptime,              \* ticks since run() started, saturated
    pool,                \* the asyncpg pool: "none", "open" or "closed"
    exit_code,           \* exit status of the process, None while it runs
    callers,             \* position of each control API request handler
    unfinished_tasks,    \* asyncio.Queue._unfinished_tasks of the queue
    vm_state,            \* MainViewModel._state
    current_config_path, \* MainViewModel._current_config_path
    validate_calls,      \* error counts validate returned in the latest call
    facade_calls,        \* facade calls made by the latest view-model call
    state_changed,       \* states the latest call emitted with state_changed
    error_occurred,      \* error_occurred signals the latest call emitted
    facade_raised,       \* a facade call of the latest call raised
    vm_calls,            \* number of calls made on the view model
    vm_closed,           \* MainViewModel.shutdown was called
    is_running,          \* RealCoreFacade._is_running
    last_tracking_call   \* the latest of start_tracking and stop_tracking

\* The variables of the desktop front end (src/main.py), a process of its own.
vm_vars == <<vm_state, current_config_path, validate_calls, facade_calls,
             state_changed, error_occurred, facade_raised, vm_calls,
             vm_closed, is_running, last_tracking_call>>

\* The variables of the ingestion process (forza_core).
core_vars == <<queue, transport_open, received, enqueued, since_warning,
               warned, buffer, last_is_race_on, running, time_since,
               active_saves, tasks, current_session_id, session_lock,
               api_status, insert_failed, consumer, sup, gathered, sink,
               prev_race, cur_race, events, appended, failures, inputs,
               uptime, pool, exit_code, callers, unfinished_tasks>>

vars == <<core_vars, vm_vars, callers, unfinished_tasks>>

Min(a, b) == IF a < b THEN a ELSE b

\* The None that PacketParser.parse returns for a rejected datagram.
NoPacket == [id |-> 0, is_race_on |-> 0, session_id |-> None]

\* ---- packet_parser.py ------------------------------------------------------
\* Faulty variant: the length check is missing.
parse_any_length(data) ==
    [id |-> data.id, is_race_on |-> data.is_race_on, session_id |-> None]

\* PacketParser.parse: None unless the length is 324 or 311; otherwise a record
\* whose is_race_on is the first wire field and whose session_id is None.
parse(data) ==
    IF data.length = 324 \/ data.length = 311
    THEN [id |-> data.id, is_race_on |-> data.is_race_on, session_id |-> None]
    ELSE NoPacket

\* ---- race_monitor.py -------------------------------------------------------
\* Faulty variant: the monitor forgets to look at its stored state.
detect_events_ignoring_last(last, packet) ==
    IF packet.is_race_on = 1
    THEN <<[kind |-> "RaceStarted", packet |-> packet.id]>>
    ELSE <<>>

\* RaceStateMonitor.detect_events: the list of events for one packet.
detect_events(last, packet) ==
    IF last = 0 /\ packet.is_race_on = 1
    THEN <<[kind |-> "RaceStarted", packet |-> packet.id]>>
    ELSE <<>>

\* ---- ingestion_service.py --------------------------------------------------
\* Lines 108-113: the copy of the packet carrying the current session id.
Enrich(packet, sid) ==
    IF sid # None /\ sid # 0
    THEN [packet EXCEPT !.session_id = sid]
    ELSE packet

\* Faulty variant: the flag is tested for truth instead of compared with 1.
ShouldBuffer_truthy(packet) == packet.is_race_on # 0

\* Line 101: the condition under which a record is buffered.
ShouldBuffer(packet) == packet.is_race_on = 1

\* Faulty variant: the packet is inserted at the front of the buffer.
AppendPacket_front(buf, packet) == <<packet>> \o buf

\* Faulty variant: the append stamps the new packet's session id on the whole
\* buffer.
AppendPacket_restamps(buf, packet) ==
    [i \in 1..Len(buf) |-> [buf[i] EXCEPT !.session_id = packet.session_id]]
        \o <<packet>>

\* Line 115: self._buffer.append(packet).
AppendPacket(buf, packet) == Append(buf, packet)

\* Faulty variant: off by one, the flush waits for one packet more.
SizeTrigger_off_by_one(buf) == Len(buf) > BufferSize

\* Faulty variant: the size trigger is missing.
SizeTrigger_never(buf) == FALSE

\* Line 117: the size trigger.
SizeTrigger(buf) == Len(buf) >= BufferSize

\* Faulty variant: the operands of the subtraction swapped.
TimeTrigger_reversed(elapsed) == 0 - elapsed >= FlushIntervalTicks

\* Line 153: the time trigger.
TimeTrigger(elapsed) == elapsed >= FlushIntervalTicks

\* Faulty variant: the copy is taken after the buffer was cleared.
packets_to_save_after_clear(buf) == <<>>

\* Line 171: the batch a swap takes out of the buffer.
packets_to_save(buf) == buf

\* Line 194: the backoff after failed attempt number `attempt` (0-based).
BackoffTicks(attempt) == BackoffUnitTicks * (attempt + 1)

\* Faulty variant: a failed attempt is always retried.
RetryAfter_always(attempt) == TRUE

\* Line 192: whether another attempt follows a failure.
RetryAfter(attempt) == attempt < max_retries - 1

NewTask(batch) ==
    [batch |-> batch, attempt |-> 0, state |-> "calling", timer |-> 0]

\* Faulty variant: the spawned task is not added to _active_saves.
Flush_unregistered(buf) ==
    IF buf = <<>>
    THEN /\ buffer' = buf
         /\ UNCHANGED <<tasks, active_saves, time_since>>
    ELSE /\ buffer' = <<>>
         /\ time_since' = 0
         /\ tasks' = Append(tasks, NewTask(packets_to_save(buf)))
         /\ UNCHANGED active_saves

\* Faulty variant: the buffer is copied but not cleared.
Flush_keeps_buffer(buf) ==
    IF buf = <<>>
    THEN /\ buffer' = buf
         /\ UNCHANGED <<tasks, active_saves, time_since>>
    ELSE /\ buffer' = buf
         /\ time_since' = 0
         /\ tasks' = Append(tasks, NewTask(packets_to_save(buf)))
         /\ active_saves' = active_saves \cup {Len(tasks) + 1}

\* Faulty variant: the batch is handed to two save tasks.
Flush_spawns_twice(buf) ==
    IF buf = <<>>
    THEN /\ buffer' = buf
         /\ UNCHANGED <<tasks, active_saves, time_since>>
    ELSE /\ buffer' = <<>>
         /\ time_since' = 0
         /\ tasks' = tasks \o <<NewTask(packets_to_save(buf)),
                                 NewTask(packets_to_save(buf))>>
         /\ active_saves' = active_saves \cup {Len(tasks) + 1, Len(tasks) + 2}

\* _flush on a buffer holding buf: swap, stamp, spawn and register a save task.
\* The lock is never contended and nothing between its acquisition and
\* create_task suspends, so no other task runs in between.
Flush(buf) ==
    IF buf = <<>>
    THEN /\ buffer' = buf
         /\ UNCHANGED <<tasks, active_saves, time_since>>
    ELSE /\ buffer' = <<>>
         /\ time_since' = 0
         /\ tasks' = Append(tasks, NewTask(packets_to_save(buf)))
         /\ active_saves' = active_saves \cup {Len(tasks) + 1}

TypeOK ==
    /\ Len(queue) <= QueueCapacity
    /\ received \in 0..(MaxDatagrams + MaxDropped)
    /\ enqueued \in 0..MaxDatagrams
    /\ since_warning \in 0..WarnIntervalTicks
    /\ running \in BOOLEAN
    /\ time_since \in 0..FlushIntervalTicks
    /\ active_saves \subseteq 1..Len(tasks)
    /\ failures \in 0..MaxFailures

Init ==
    /\ queue = <<>>
    /\ transport_open = FALSE
    /\ received = 0
    /\ enqueued = 0
    /\ since_warning = WarnIntervalTicks
    /\ warned = FALSE
    /\ buffer = <<>>
    /\ last_is_race_on = 0
    /\ running = FALSE
    /\ time_since = FlushIntervalTicks
    /\ active_saves = {}
    /\ tasks = <<>>
    /\ current_session_id = None
    /\ session_lock = FALSE
    /\ api_status = "none"
    /\ insert_failed = FALSE
    /\ consumer = "created"
    /\ sup = "connecting"
    /\ pool = "none"
    /\ exit_code = None
    /\ callers = [c \in CallerIds |-> "idle"]
    /\ unfinished_tasks = 0
    /\ gathered = {}
    /\ sink = EmptyBag
    /\ prev_race = None
    /\ cur_race = None
    /\ events = <<>>
    /\ appended = {}
    /\ failures = 0
    /\ uptime = 0
    /\ inputs = 0
    /\ vm_state = "IDLE"
    /\ current_config_path = None
    /\ validate_calls = <<>>
    /\ facade_calls = <<>>
    /\ state_changed = <<>>
    /\ error_occurred = 0
    /\ facade_raised = FALSE
    /\ vm_calls = 0
    /\ vm_closed = FALSE
    /\ is_running = FALSE
    /\ last_tracking_call = "none"

\* ---- udp_transport.py ------------------------------------------------------
\* Faulty variant: a full queue gives up its oldest item for the new one.
put_nowait_drop_head(q, item) ==
    IF Len(q) < QueueCapacity THEN Append(q, item) ELSE Append(Tail(q), item)

\* Queue.put_nowait with the QueueFull branch of datagram_received: drop-tail.
put_nowait(q, item) ==
    IF Len(q) < QueueCapacity THEN Append(q, item) ELSE q

\* Faulty variant: every drop is logged.
WarnDue_always(elapsed) == TRUE

\* Line 37: the rate limit of the queue-full warning.
WarnDue(elapsed) == elapsed >= WarnIntervalTicks

\* The number of drops the receiver has counted: UdpListener keeps the queue
\* and _last_error_log_time and no counter, and the QueueFull branch only logs.
dropped_count == 0

\* UdpListener.datagram_received for one datagram of the given length and flag.
datagram_received(length, race) ==
    /\ inputs < MaxInputs
    /\ inputs' = inputs + 1
    /\ transport_open
    /\ IF Len(queue) < QueueCapacity
       THEN enqueued < MaxDatagrams
       ELSE received - enqueued < MaxDropped
    /\ received' = received + 1
    /\ queue' = put_nowait(queue, [id |-> enqueued + 1, length |-> length,
                                   is_race_on |-> race])
    /\ IF Len(queue) < QueueCapacity
       THEN /\ enqueued' = enqueued + 1
            /\ unfinished_tasks' = unfinished_tasks + 1
            /\ warned' = FALSE
            /\ UNCHANGED since_warning
       ELSE /\ warned' = WarnDue(since_warning)
            /\ since_warning' = IF WarnDue(since_warning) THEN 0
                                ELSE since_warning
            /\ UNCHANGED <<enqueued, unfinished_tasks>>
    /\ UNCHANGED <<transport_open, buffer, last_is_race_on, running,
                   time_since, active_saves, tasks, current_session_id,
                   session_lock, api_status, insert_failed, consumer, sup,
                   gathered, sink, prev_race, cur_race, events, appended,
                   failures, uptime>>
    /\ UNCHANGED <<pool, exit_code, vm_vars, callers>>

\* ---- IngestionService.run ---------------------------------------------------
\* The run() task starts: _running = True and the flush monitor is created.
RunStart ==
    /\ consumer = "created"
    /\ sup = "serving"
    /\ consumer' = "running"
    /\ running' = TRUE
    /\ UNCHANGED <<queue, transport_open, received, enqueued, warned,
                   since_warning, buffer, last_is_race_on, time_since,
                   active_saves, tasks, current_session_id, session_lock,
                   api_status, insert_failed, sup, gathered, sink, prev_race,
                   cur_race, events, appended, failures, uptime, inputs>>
    /\ UNCHANGED <<pool, exit_code, vm_vars, callers, unfinished_tasks>>

\* _process_packet: monitor, enrichment, append, size-triggered flush.
process_packet(packet) ==
    /\ events' = detect_events(last_is_race_on, packet)
    /\ prev_race' = cur_race
    /\ cur_race' = packet.is_race_on
    /\ last_is_race_on' = packet.is_race_on
    /\ IF ShouldBuffer(packet)
       THEN LET buf == AppendPacket(buffer,
                                   Enrich(packet, current_session_id)) IN
            /\ appended' = appended \cup {packet.id}
            /\ IF SizeTrigger(buf)
               THEN Flush(buf)
               ELSE /\ buffer' = buf
                    /\ UNCHANGED <<tasks, active_saves, time_since>>
       ELSE UNCHANGED <<buffer, appended, tasks, active_saves, time_since>>

\* Queue.task_done, lines 68 and 72.
task_done(unfinished) == unfinished - 1

\* One iteration of the consumer loop: get, parse, skip or process, task_done.
ConsumerStep ==
    /\ consumer = "running"
    /\ sup = "serving"
    /\ queue # <<>>
    /\ queue' = Tail(queue)
    /\ unfinished_tasks' = task_done(unfinished_tasks)
    /\ LET packet == parse(Head(queue)) IN
       IF packet = NoPacket
       THEN UNCHANGED <<buffer, last_is_race_on, time_since, active_saves,
                        tasks, prev_race, cur_race, events, appended>>
       ELSE process_packet(packet)
    /\ UNCHANGED <<transport_open, received, enqueued, since_warning, warned,
                   running, current_session_id, session_lock, api_status,
                   insert_failed, consumer, sup, gathered, sink, failures,
                   uptime, inputs>>
    /\ UNCHANGED <<pool, exit_code, vm_vars, callers>>

\* Faulty variant: an exception ends the consumer loop.
LoopAfterError_exits(position) == "finished"

\* Lines 76-78: except Exception logs, sleeps 100 ms and the while loop goes
\* on; the sleep is shorter than a tick.
LoopAfterError(position) == position

\* One iteration of the consumer loop in which the injected parser raises: the
\* datagram is off the queue, nothing else was touched yet, and the except
\* branch does not call task_done.
ConsumerStepRaises ==
    /\ consumer = "running"
    /\ sup = "serving"
    /\ queue # <<>>
    /\ inputs < MaxInputs
    /\ inputs' = inputs + 1
    /\ queue' = Tail(queue)
    /\ consumer' = LoopAfterError(consumer)
    /\ UNCHANGED <<transport_open, received, enqueued, since_warning, warned,
                   buffer, last_is_race_on, running, time_since, active_saves,
                   tasks, current_session_id, session_lock, api_status,
                   insert_failed, sup, gathered, sink, prev_race, cur_race,
                   events, appended, failures, uptime, pool, exit_code,
                   vm_vars, callers, unfinished_tasks>>

\* ---- IngestionService._monitor_flush ----------------------------------------
\* The ticker wakes from its 100 ms sleep and checks the buffer and the time.
monitor_flush ==
    /\ running
    /\ IF buffer # <<>> /\ TimeTrigger(time_since)
       THEN Flush(buffer)
       ELSE UNCHANGED <<buffer, tasks, active_saves, time_since>>
    /\ UNCHANGED <<queue, transport_open, received, enqueued, warned,
                   since_warning, last_is_race_on, running, current_session_id,
                   session_lock, api_status, insert_failed, consumer, sup,
                   gathered, sink, prev_race, cur_race, events, appended,
                   failures, uptime, inputs>>
    /\ UNCHANGED <<pool, exit_code, vm_vars, callers, unfinished_tasks>>

\* ---- IngestionService._save_safe --------------------------------------------
Finished(t) == tasks[t].state \in {"saved", "dropped"}

\* save_batch returns: the batch is in the store and the task returns.
SaveOk(t) ==
    /\ sup # "closed"
    /\ tasks[t].state = "calling"
    /\ sink' = sink (+) SetToBag({tasks[t].batch})
    /\ tasks' = [tasks EXCEPT ![t].state = "saved"]
    /\ UNCHANGED <<queue, transport_open, received, enqueued, warned,
                   since_warning, buffer, last_is_race_on, running, time_since,
                   active_saves, current_session_id, session_lock, api_status,
                   insert_failed, consumer, sup, gathered, prev_race, cur_race,
                   events, appended, failures, uptime, inputs>>
    /\ UNCHANGED <<pool, exit_code, vm_vars, callers, unfinished_tasks>>

\* The except branch: back off and retry, or log the drop after the last try.
AfterFailure(task) ==
    IF RetryAfter(task.attempt)
    THEN [task EXCEPT !.state = "sleeping",
                      !.timer = BackoffTicks(task.attempt)]
    ELSE [task EXCEPT !.state = "dropped"]

\* Faulty variant: the exception of save_batch reaches the consumer loop.
SaveFail_propagates(t) ==
    /\ inputs < MaxInputs
    /\ inputs' = inputs + 1
    /\ sup # "closed"
    /\ tasks[t].state = "calling"
    /\ failures < MaxFailures
    /\ failures' = failures + 1
    /\ tasks' = [tasks EXCEPT ![t] = AfterFailure(tasks[t])]
    /\ consumer' = "finished"
    /\ running' = FALSE
    /\ UNCHANGED <<queue, transport_open, received, enqueued, warned,
                   since_warning, buffer, last_is_race_on, time_since,
                   active_saves, current_session_id, session_lock, api_status,
                   insert_failed, sup, gathered, sink, prev_race, cur_race,
                   events, appended, uptime, pool, exit_code, vm_vars, callers,
                   unfinished_tasks>>

\* save_batch raises.
SaveFail(t) ==
    /\ inputs < MaxInputs
    /\ inputs' = inputs + 1
    /\ sup # "closed"
    /\ tasks[t].state = "calling"
    /\ failures < MaxFailures
    /\ failures' = failures + 1
    /\ tasks' = [tasks EXCEPT ![t] = AfterFailure(tasks[t])]
    /\ UNCHANGED <<queue, transport_open, received, enqueued, warned,
                   since_warning, buffer, last_is_race_on, running, time_since,
                   active_saves, current_session_id, session_lock, api_status,
                   insert_failed, consumer, sup, gathered, sink, prev_race,
                   cur_race, events, appended, uptime>>
    /\ UNCHANGED <<pool, exit_code, vm_vars, callers, unfinished_tasks>>

\* The backoff sleep is over: the next iteration of the retry loop calls again.
BackoffWake(t) ==
    /\ sup # "closed"
    /\ tasks[t].state = "sleeping"
    /\ tasks[t].timer = 0
    /\ tasks' = [tasks EXCEPT ![t].state = "calling", ![t].attempt = @ + 1]
    /\ UNCHANGED <<queue, transport_open, received, enqueued, warned,
                   since_warning, buffer, last_is_race_on, running, time_since,
                   active_saves, current_session_id, session_lock, api_status,
                   insert_failed, consumer, sup, gathered, sink, prev_race,
                   cur_race, events, appended, failures, uptime, inputs>>
    /\ UNCHANGED <<pool, exit_code, vm_vars, callers, unfinished_tasks>>

\* The done callback added in _flush: _active_saves.discard(task).
Deregister(t) ==
    /\ sup # "closed"
    /\ t \in active_saves
    /\ Finished(t)
    /\ active_saves' = active_saves \ {t}
    /\ UNCHANGED <<queue, transport_open, received, enqueued, warned,
                   since_warning, buffer, last_is_race_on, running, time_since,
                   tasks, current_session_id, session_lock, api_status,
                   insert_failed, consumer, sup, gathered, sink, prev_race,
                   cur_race, events, appended, failures, uptime, inputs>>
    /\ UNCHANGED <<pool, exit_code, vm_vars, callers, unfinished_tasks>>

\* ---- set_session, stop_session and the control API --------------------------
\* Faulty variant: a failed insert clears the session.
SessionAfterFailure_cleared(prev) == None

\* Lines 131-133: the except branch only logs; the id stays what it was.
SessionAfterFailure(prev) == prev

\* Line 126: async with releases the lock when the block is left, also through
\* the except branch.
LockAfterFailure(held) == FALSE

\* POST /session/start whose create_session returns new_id: set_session takes
\* the lock, stores the id, releases the lock; the handler answers success.
start_session_created(new_id) ==
    /\ inputs < MaxInputs
    /\ inputs' = inputs + 1
    /\ sup = "serving"
    /\ ~session_lock
    /\ current_session_id' = new_id
    /\ session_lock' = FALSE
    /\ api_status' = "success"
    /\ insert_failed' = FALSE
    /\ UNCHANGED <<queue, transport_open, received, enqueued, since_warning,
                   warned, buffer, last_is_race_on, running, time_since,
                   active_saves, tasks, consumer, sup, gathered, sink,
                   prev_race, cur_race, events, appended, failures, uptime>>
    /\ UNCHANGED <<pool, exit_code, vm_vars, callers, unfinished_tasks>>

\* POST /session/start whose create_session raises: set_session logs and
\* returns normally, so the handler answers success all the same.
start_session_failed ==
    /\ inputs < MaxInputs
    /\ inputs' = inputs + 1
    /\ sup = "serving"
    /\ ~session_lock
    /\ current_session_id' = SessionAfterFailure(current_session_id)
    /\ session_lock' = LockAfterFailure(TRUE)
    /\ api_status' = "success"
    /\ insert_failed' = TRUE
    /\ UNCHANGED <<queue, transport_open, received, enqueued, since_warning,
                   warned, buffer, last_is_race_on, running, time_since,
                   active_saves, tasks, consumer, sup, gathered, sink,
                   prev_race, cur_race, events, appended, failures, uptime>>
    /\ UNCHANGED <<pool, exit_code, vm_vars, callers, unfinished_tasks>>

\* POST /session/stop: stop_session clears the id under the lock.
stop_session ==
    /\ inputs < MaxInputs
    /\ inputs' = inputs + 1
    /\ sup = "serving"
    /\ ~session_lock
    /\ current_session_id' = None
    /\ session_lock' = FALSE
    /\ UNCHANGED <<queue, transport_open, received, enqueued, since_warning,
                   warned, buffer, last_is_race_on, running, time_since,
                   active_saves, tasks, api_status, insert_failed, consumer,
                   sup, gathered, sink, prev_race, cur_race, events, appended,
                   failures, uptime>>
    /\ UNCHANGED <<pool, exit_code, vm_vars, callers, unfinished_tasks>>

\* ---- the session lock, request by request --------------------------------
\* Faulty variant: the lock is handed out while it is held.
CanAcquire_always(held, waiting) == TRUE

\* asyncio.Lock.acquire returns at once when the lock is free and nobody is
\* queued for it; otherwise the caller is suspended until it is woken.
CanAcquire(held, waiting) == ~held /\ waiting = {}

Waiting == {c \in CallerIds : callers[c] \in {"set_waiting", "stop_waiting"}}

\* A POST /session/start handler calls set_session: it takes the lock and
\* awaits create_session, or is suspended in acquire.
set_session_called(c) ==
    /\ inputs < MaxInputs
    /\ inputs' = inputs + 1
    /\ sup = "serving"
    /\ callers[c] = "idle"
    /\ IF CanAcquire(session_lock, Waiting)
       THEN /\ session_lock' = TRUE
            /\ callers' = [callers EXCEPT ![c] = "inserting"]
       ELSE /\ callers' = [callers EXCEPT ![c] = "set_waiting"]
            /\ UNCHANGED session_lock
    /\ UNCHANGED <<queue, transport_open, received, enqueued, since_warning,
                   warned, buffer, last_is_race_on, running, time_since,
                   active_saves, tasks, current_session_id, api_status,
                   insert_failed, consumer, sup, gathered, sink, prev_race,
                   cur_race, events, appended, failures, uptime, pool,
                   exit_code, vm_vars, unfinished_tasks>>

\* A suspended set_session is given the free lock and awaits create_session.
set_session_resumed(c) ==
    /\ callers[c] = "set_waiting"
    /\ CanAcquire(session_lock, {})
    /\ session_lock' = TRUE
    /\ callers' = [callers EXCEPT ![c] = "inserting"]
    /\ UNCHANGED <<queue, transport_open, received, enqueued, since_warning,
                   warned, buffer, last_is_race_on, running, time_since,
                   active_saves, tasks, current_session_id, api_status,
                   insert_failed, consumer, sup, gathered, sink, prev_race,
                   cur_race, events, appended, failures, inputs, uptime, pool,
                   exit_code, vm_vars, unfinished_tasks>>

\* create_session returns new_id to the set_session holding the lock: the id
\* is stored, the lock released, and the handler answers success.
create_session_returned(c, new_id) ==
    /\ callers[c] = "inserting"
    /\ current_session_id' = new_id
    /\ session_lock' = FALSE
    /\ api_status' = "success"
    /\ insert_failed' = FALSE
    /\ callers' = [callers EXCEPT ![c] = "idle"]
    /\ UNCHANGED <<queue, transport_open, received, enqueued, since_warning,
                   warned, buffer, last_is_race_on, running, time_since,
                   active_saves, tasks, consumer, sup, gathered, sink,
                   prev_race, cur_race, events, appended, failures, inputs,
                   uptime, pool, exit_code, vm_vars, unfinished_tasks>>

\* create_session raises in the set_session holding the lock.
create_session_raised(c) ==
    /\ callers[c] = "inserting"
    /\ current_session_id' = SessionAfterFailure(current_session_id)
    /\ session_lock' = LockAfterFailure(TRUE)
    /\ api_status' = "success"
    /\ insert_failed' = TRUE
    /\ callers' = [callers EXCEPT ![c] = "idle"]
    /\ UNCHANGED <<queue, transport_open, received, enqueued, since_warning,
                   warned, buffer, last_is_race_on, running, time_since,
                   active_saves, tasks, consumer, sup, gathered, sink,
                   prev_race, cur_race, events, appended, failures, inputs,
                   uptime, pool, exit_code, vm_vars, unfinished_tasks>>

\* A POST /session/stop handler calls stop_session: with the lock free it
\* clears the id and releases the lock without suspending, otherwise it is
\* suspended in acquire.
stop_session_called(c) ==
    /\ inputs < MaxInputs
    /\ inputs' = inputs + 1
    /\ sup = "serving"
    /\ callers[c] = "idle"
    /\ IF CanAcquire(session_lock, Waiting)
       THEN /\ current_session_id' = None
            /\ session_lock' = FALSE
            /\ UNCHANGED callers
       ELSE /\ callers' = [callers EXCEPT ![c] = "stop_waiting"]
            /\ UNCHANGED <<current_session_id, session_lock>>
    /\ UNCHANGED <<queue, transport_open, received, enqueued, since_warning,
                   warned, buffer, last_is_race_on, running, time_since,
                   active_saves, tasks, api_status, insert_failed, consumer,
                   sup, gathered, sink, prev_race, cur_race, events, appended,
                   failures, uptime, pool, exit_code, vm_vars,
                   unfinished_tasks>>

\* A suspended stop_session is given the free lock, clears the id, releases.
stop_session_resumed(c) ==
    /\ callers[c] = "stop_waiting"
    /\ CanAcquire(session_lock, {})
    /\ current_session_id' = None
    /\ session_lock' = FALSE
    /\ callers' = [callers EXCEPT ![c] = "idle"]
    /\ UNCHANGED <<queue, transport_open, received, enqueued, since_warning,
                   warned, buffer, last_is_race_on, running, time_since,
                   active_saves, tasks, api_status, insert_failed, consumer,
                   sup, gathered, sink, prev_race, cur_race, events, appended,
                   failures, inputs, uptime, pool, exit_code, vm_vars,
                   unfinished_tasks>>

SessionRequests ==
    \E c \in CallerIds :
        \/ set_session_called(c)
        \/ set_session_resumed(c)
        \/ \E new_id \in SessionIds : create_session_returned(c, new_id)
        \/ create_session_raised(c)
        \/ stop_session_called(c)
        \/ stop_session_resumed(c)

SessionApi ==
    \/ \E new_id \in SessionIds : start_session_created(new_id)
    \/ start_session_failed
    \/ stop_session

\* ---- forza_core/main.py: startup --------------------------------------------
\* The status the interpreter exits with when main() returns normally and
\* asyncio.run hands control back to the module: nothing calls sys.exit.
ExitCodeOnReturn == 0

\* asyncpg.create_pool returns: main() goes on to build the service.
create_pool_ok ==
    /\ sup = "connecting"
    /\ sup' = "binding"
    /\ pool' = "open"
    /\ UNCHANGED <<queue, transport_open, received, enqueued, since_warning,
                   warned, buffer, last_is_race_on, running, time_since,
                   active_saves, tasks, current_session_id, session_lock,
                   api_status, insert_failed, consumer, gathered, sink,
                   prev_race, cur_race, events, appended, failures, inputs,
                   uptime, exit_code, vm_vars, callers, unfinished_tasks>>

\* asyncpg.create_pool raises: log db_connection_failed and return.
create_pool_failed ==
    /\ sup = "connecting"
    /\ sup' = "db_failed"
    /\ exit_code' = ExitCodeOnReturn
    /\ UNCHANGED <<queue, transport_open, received, enqueued, since_warning,
                   warned, buffer, last_is_race_on, running, time_since,
                   active_saves, tasks, current_session_id, session_lock,
                   api_status, insert_failed, consumer, gathered, sink,
                   prev_race, cur_race, events, appended, failures, inputs,
                   uptime, pool, vm_vars, callers, unfinished_tasks>>

\* create_datagram_endpoint returns: the socket is bound, the run() task and
\* the API server are created.
create_datagram_endpoint_ok ==
    /\ sup = "binding"
    /\ sup' = "serving"
    /\ transport_open' = TRUE
    /\ UNCHANGED <<queue, received, enqueued, since_warning, warned, buffer,
                   last_is_race_on, running, time_since, active_saves, tasks,
                   current_session_id, session_lock, api_status, insert_failed,
                   consumer, gathered, sink, prev_race, cur_race, events,
                   appended, failures, inputs, uptime, pool, exit_code,
                   vm_vars, callers, unfinished_tasks>>

\* create_datagram_endpoint raises: log udp_bind_failed, close the pool, return.
create_datagram_endpoint_failed ==
    /\ sup = "binding"
    /\ sup' = "bind_failed"
    /\ pool' = "closed"
    /\ exit_code' = ExitCodeOnReturn
    /\ UNCHANGED <<queue, transport_open, received, enqueued, since_warning,
                   warned, buffer, last_is_race_on, running, time_since,
                   active_saves, tasks, current_session_id, session_lock,
                   api_status, insert_failed, consumer, gathered, sink,
                   prev_race, cur_race, events, appended, failures, inputs,
                   uptime, vm_vars, callers, unfinished_tasks>>

Startup ==
    \/ create_pool_ok
    \/ create_pool_failed
    \/ create_datagram_endpoint_ok
    \/ create_datagram_endpoint_failed

\* main() has returned.
Exited == sup \in {"closed", "db_failed", "bind_failed"}

\* ---- forza_core/main.py: shutdown -------------------------------------------
\* The finally block starts: transport.close() and ingestion_task.cancel().
Shutdown ==
    /\ sup = "serving"
    /\ sup' = "cancelling"
    /\ transport_open' = FALSE
    /\ UNCHANGED <<queue, received, enqueued, since_warning, warned, buffer,
                   last_is_race_on, running, time_since, active_saves, tasks,
                   current_session_id, session_lock, api_status, insert_failed,
                   consumer, gathered, sink, prev_race, cur_race, events,
                   appended, failures, uptime, inputs>>
    /\ UNCHANGED <<pool, exit_code, vm_vars, callers, unfinished_tasks>>

\* Whether main() gave up waiting for the queue to empty before it cancelled
\* run(): between transport.close() and ingestion_task.cancel() there is no
\* wait at all, so no wait ever times out.
drain_timed_out == FALSE

\* Faulty variant: the cancellation lands after queue.get() has returned a
\* datagram and before it is processed.
ConsumerCancelled_after_get ==
    /\ sup = "cancelling"
    /\ consumer \in {"created", "running"}
    /\ consumer' = "finished"
    /\ running' = FALSE
    /\ queue' = IF queue # <<>> THEN Tail(queue) ELSE queue
    /\ UNCHANGED <<transport_open, received, enqueued, warned, since_warning,
                   buffer, last_is_race_on, time_since, active_saves, tasks,
                   current_session_id, session_lock, api_status, insert_failed,
                   sup, gathered, sink, prev_race, cur_race, events, appended,
                   failures, uptime, inputs, pool, exit_code, vm_vars, callers,
                   unfinished_tasks>>

\* run() receives the CancelledError: _running = False, monitor cancelled.
\* The task is suspended in queue.get() or in the sleep of the except branch
\* when the error is thrown into it; a get() that is cancelled takes no item.
ConsumerCancelled ==
    /\ sup = "cancelling"
    /\ consumer \in {"created", "running"}
    /\ consumer' = "finished"
    /\ running' = FALSE
    /\ UNCHANGED <<queue, transport_open, received, enqueued, warned,
                   since_warning, buffer, last_is_race_on, time_since,
                   active_saves, tasks, current_session_id, session_lock,
                   api_status, insert_failed, sup, gathered, sink, prev_race,
                   cur_race, events, appended, failures, uptime, inputs>>
    /\ UNCHANGED <<pool, exit_code, vm_vars, callers, unfinished_tasks>>

\* IngestionService.flush: the final swap, then gather over _active_saves.
flush ==
    /\ sup = "cancelling"
    /\ consumer = "finished"
    /\ Flush(buffer)
    /\ gathered' = active_saves'
    /\ sup' = IF active_saves' # {} THEN "gathering" ELSE "flushed"
    /\ UNCHANGED <<queue, transport_open, received, enqueued, warned,
                   since_warning, last_is_race_on, running, current_session_id,
                   session_lock, api_status, insert_failed, consumer, sink,
                   prev_race, cur_race, events, appended, failures, uptime,
                   inputs>>
    /\ UNCHANGED <<pool, exit_code, vm_vars, callers, unfinished_tasks>>

\* Faulty variant: the wait never completes.
GatherComplete_never(ts) == FALSE

\* Faulty variant: flush() does not await the gather.
GatherComplete_no_wait(ts) == TRUE

\* Faulty variant: the wait returns as soon as one of the tasks is done.
GatherComplete_first(ts) ==
    \E t \in ts : Finished(t) /\ t \notin active_saves

\* asyncio.gather completes when each task is done and its callbacks have run.
GatherComplete(ts) ==
    \A t \in ts : Finished(t) /\ t \notin active_saves

\* flush() resumes from the gather and returns to main().
GatherDone ==
    /\ sup = "gathering"
    /\ GatherComplete(gathered)
    /\ sup' = "flushed"
    /\ UNCHANGED <<queue, transport_open, received, enqueued, warned,
                   since_warning, buffer, last_is_race_on, running, time_since,
                   active_saves, tasks, current_session_id, session_lock,
                   api_status, insert_failed, consumer, gathered, sink,
                   prev_race, cur_race, events, appended, failures, uptime,
                   inputs>>
    /\ UNCHANGED <<pool, exit_code, vm_vars, callers, unfinished_tasks>>

\* pool.close(): main() returns.
PoolClose ==
    /\ sup = "flushed"
    /\ sup' = "closed"
    /\ pool' = "closed"
    /\ exit_code' = ExitCodeOnReturn
    /\ UNCHANGED <<queue, transport_open, received, enqueued, warned,
                   since_warning, buffer, last_is_race_on, running, time_since,
                   active_saves, tasks, current_session_id, session_lock,
                   api_status, insert_failed, consumer, gathered, sink,
                   prev_race, cur_race, events, appended, failures, uptime,
                   inputs>>
    /\ UNCHANGED <<vm_vars, callers, unfinished_tasks>>

\* ---- the clock -------------------------------------------------------------
\* One tick passes: every pending sleep gets shorter, every elapsed time longer.
Tick ==
    /\ ~Exited
    /\ time_since' = Min(time_since + 1, FlushIntervalTicks)
    /\ uptime' = IF running THEN Min(uptime + 1, FlushIntervalTicks) ELSE uptime
    /\ tasks' = [t \in DOMAIN tasks |->
                    IF tasks[t].state = "sleeping" /\ tasks[t].timer > 0
                    THEN [tasks[t] EXCEPT !.timer = @ - 1]
                    ELSE tasks[t]]
    /\ since_warning' = Min(since_warning + 1, WarnIntervalTicks)
    /\ UNCHANGED <<queue, transport_open, received, enqueued, warned, buffer,
                   last_is_race_on, running, active_saves, current_session_id,
                   session_lock, api_status, insert_failed, consumer, sup,
                   gathered, sink, prev_race, cur_race, events, appended,
                   failures, inputs>>
    /\ UNCHANGED <<pool, exit_code, vm_vars, callers, unfinished_tasks>>

Receive == \E d \in WireDatagrams : datagram_received(d[1], d[2])

SaveTaskStep == \E t \in DOMAIN tasks :
                    SaveOk(t) \/ SaveFail(t) \/ BackoffWake(t) \/ Deregister(t)

\* The event loop runs the done callbacks of the finished save tasks.
DoneCallbacks == \E t \in DOMAIN tasks : Deregister(t)

Next ==
    \/ Startup
    \/ Receive
    \/ RunStart
    \/ ConsumerStep
    \/ ConsumerStepRaises
    \/ monitor_flush
    \/ SaveTaskStep
    \/ SessionApi
    \/ Shutdown
    \/ ConsumerCancelled
    \/ flush
    \/ GatherDone
    \/ PoolClose
    \/ Tick

Spec == Init /\ [][Next]_vars

\* Time passes, the event loop resumes the ticker once its sleep is over, and
\* it runs the callbacks it has scheduled.
LiveSpec ==
    Spec /\ WF_vars(Tick) /\ WF_vars(monitor_flush) /\ WF_vars(DoneCallbacks)

\* The steps of main()'s finally block and of the cancelled run().
ShutdownSteps ==
    \/ ConsumerCancelled
    \/ flush
    \/ GatherDone
    \/ PoolClose

\* Time passes, every save_batch call returns or raises, and the event loop
\* resumes every task that is ready, main() and the cancelled run() included.
TerminationSpec ==
    Spec /\ WF_vars(Tick) /\ WF_vars(SaveTaskStep) /\ WF_vars(ShutdownSteps)

\* ---- presentation/viewmodels/main_vm.py ----------------------------------
\* The file paths the view hands to load_config.
ConfigPaths == {1, 2}

\* How many error messages IConfigValidator.validate may return.
ValidationErrors == {0, 1, 2}

\* Faulty variant: a configuration can be loaded during a session.
ConfigLocked_never(state) == FALSE

\* Line 42: the states in which load_config is refused.
ConfigLocked(state) == state \in {"RACING", "SAVING"}

\* The state setter, lines 30-34: state_changed is emitted only on a change.
Emit(signals, old_state, new_state) ==
    IF old_state # new_state THEN Append(signals, new_state) ELSE signals

\* Faulty variant: the except branch leaves the state alone.
AfterFacadeError_unchanged(state) == state

\* Lines 76-78 and 86-88: the except branches of _start_session and
\* _stop_session emit error_occurred and set ERROR.
AfterFacadeError(state) == "ERROR"

\* RealCoreFacade.start_tracking, lines 23-34: _is_running after the call. It
\* is set at line 30, before Thread.start at line 34, the one statement that
\* can raise, so it is set whether the call returns or raises.
start_tracking(tracking) == TRUE

\* RealCoreFacade.stop_tracking, lines 36-46: _is_running after the call. It
\* is cleared at line 45, after the join at line 44, so a call that raises
\* leaves it as it was.
stop_tracking(tracking, raises) == IF raises THEN tracking ELSE FALSE

\* RealCoreFacade.cleanup, lines 48-50: a stop_tracking that returns.
cleanup(tracking) == stop_tracking(tracking, FALSE)

\* MainViewModel.load_config(file_path) with a validator returning `errors`
\* messages.
load_config(file_path, errors) ==
    /\ ~vm_closed
    /\ vm_calls < MaxVmCalls
    /\ vm_calls' = vm_calls + 1
    /\ facade_calls' = <<>>
    /\ facade_raised' = FALSE
    /\ IF ConfigLocked(vm_state)
       THEN /\ error_occurred' = 1
            /\ validate_calls' = <<>>
            /\ state_changed' = <<>>
            /\ UNCHANGED <<vm_state, current_config_path>>
       ELSE /\ validate_calls' = <<errors>>
            /\ IF errors > 0
               THEN /\ error_occurred' = 1
                    /\ vm_state' = "ERROR"
                    /\ state_changed' = Emit(<<>>, vm_state, "ERROR")
                    /\ UNCHANGED current_config_path
               ELSE /\ error_occurred' = 0
                    /\ current_config_path' = file_path
                    /\ vm_state' = "READY"
                    /\ state_changed' = Emit(<<>>, vm_state, "READY")
    /\ UNCHANGED <<core_vars, vm_closed, is_running, last_tracking_call>>

\* _start_session with a facade whose start_tracking raises or returns.
start_session(raises) ==
    /\ facade_calls' = <<"start_tracking">>
    /\ facade_raised' = raises
    /\ error_occurred' = IF raises THEN 1 ELSE 0
    /\ vm_state' = IF raises THEN AfterFacadeError(vm_state) ELSE "RACING"
    /\ is_running' = start_tracking(is_running)
    /\ last_tracking_call' = "start_tracking"
    /\ state_changed' = Emit(<<>>, vm_state, vm_state')

\* _stop_session with a facade whose stop_tracking raises or returns: SAVING
\* is set before the call.
stop_session_vm(raises) ==
    /\ facade_calls' = <<"stop_tracking">>
    /\ facade_raised' = raises
    /\ error_occurred' = IF raises THEN 1 ELSE 0
    /\ vm_state' = IF raises THEN AfterFacadeError("SAVING") ELSE "READY"
    /\ is_running' = stop_tracking(is_running, raises)
    /\ last_tracking_call' = "stop_tracking"
    /\ state_changed' = Emit(Emit(<<>>, vm_state, "SAVING"), "SAVING",
                             vm_state')

\* MainViewModel.toggle_session.
toggle_session(raises) ==
    /\ ~vm_closed
    /\ vm_calls < MaxVmCalls
    /\ vm_calls' = vm_calls + 1
    /\ validate_calls' = <<>>
    /\ IF vm_state = "READY" THEN start_session(raises)
       ELSE IF vm_state = "RACING" THEN stop_session_vm(raises)
       ELSE /\ facade_calls' = <<>>
            /\ facade_raised' = FALSE
            /\ error_occurred' = 0
            /\ state_changed' = <<>>
            /\ UNCHANGED <<vm_state, is_running, last_tracking_call>>
    /\ UNCHANGED <<core_vars, current_config_path, vm_closed>>

\* MainViewModel.shutdown with a facade whose stop_tracking raises or returns:
\* neither call is inside a try, so an exception leaves the method at once.
shutdown(raises) ==
    /\ ~vm_closed
    /\ vm_calls < MaxVmCalls
    /\ vm_calls' = vm_calls + 1
    /\ vm_closed' = TRUE
    /\ IF vm_state = "RACING"
       THEN /\ facade_raised' = raises
            /\ facade_calls' = IF raises THEN <<"stop_tracking">>
                               ELSE <<"stop_tracking", "cleanup">>
            /\ is_running' = IF raises
                              THEN stop_tracking(is_running, TRUE)
                              ELSE cleanup(stop_tracking(is_running, FALSE))
            /\ last_tracking_call' = "stop_tracking"
       ELSE /\ facade_raised' = FALSE
            /\ facade_calls' = <<"cleanup">>
            /\ is_running' = cleanup(is_running)
            /\ last_tracking_call' = "stop_tracking"
    /\ validate_calls' = <<>>
    /\ state_changed' = <<>>
    /\ error_occurred' = 0
    /\ UNCHANGED <<core_vars, vm_state, current_config_path>>

LoadConfig ==
    \E file_path \in ConfigPaths : \E errors \in ValidationErrors :
        load_config(file_path, errors)

ToggleSession == \E raises \in BOOLEAN : toggle_session(raises)

ViewClosed == \E raises \in BOOLEAN : shutdown(raises)

VmNext ==
    \/ LoadConfig
    \/ ToggleSession
    \/ ViewClosed

\* The session registry with overlapping requests, next to the receiver and
\* the consumer that reads it; the ticker, the save tasks and the shutdown
\* neither read nor write the registry.
SessionNext ==
    \/ Startup
    \/ Receive
    \/ RunStart
    \/ ConsumerStep
    \/ SessionRequests

SessionSpec == Init /\ [][SessionNext]_vars

\* The front end alone: its facade is a stand-in that drives no ingestion.
VmSpec == Init /\ [][VmNext]_vars

\* ==== properties ============================================================

Ids(batch) == {batch[i].id : i \in 1..Len(batch)}

\* How many times packet id occurs in a sequence of packets.
CountIn(id, batch) == Cardinality({i \in 1..Len(batch) : batch[i].id = id})

RECURSIVE SumOver(_, _)
SumOver(S, f) ==
    IF S = {} THEN 0
    ELSE LET x == CHOOSE y \in S : TRUE IN f[x] + SumOver(S \ {x}, f)

\* Copies of packet id held by save tasks that have not finished.
InFlightCount(id) ==
    SumOver({t \in DOMAIN tasks : ~Finished(t)},
            [t \in DOMAIN tasks |-> CountIn(id, tasks[t].batch)])

\* Copies of packet id the sink was handed.
SinkCount(id) ==
    SumOver(BagToSet(sink),
            [b \in BagToSet(sink) |-> CopiesIn(b, sink) * CountIn(id, b)])

\* Number of packets the sink was handed.
SinkTotal ==
    SumOver(BagToSet(sink),
            [b \in BagToSet(sink) |-> CopiesIn(b, sink) * Len(b)])

\* C1: packet conservation. While no save_batch call has failed, every appended
\* packet is in exactly one of the active buffer, the batch of an unfinished
\* save task and the sink, nothing else is in any of them, and once main() has
\* returned the sink holds as many packets as were appended minus those still
\* in the buffer.
C1_PacketConservation ==
    failures = 0 =>
        /\ \A id \in appended :
               CountIn(id, buffer) + InFlightCount(id) + SinkCount(id) = 1
        /\ \A id \in 1..(MaxDatagrams + MaxDropped) \ appended :
               CountIn(id, buffer) + InFlightCount(id) + SinkCount(id) = 0
        /\ sup = "closed" => SinkTotal = Cardinality(appended) - Len(buffer)

C1_Witness ==
    /\ sup = "closed"
    /\ failures = 0
    /\ Cardinality(appended) >= 2
    /\ SinkTotal >= 2

\* C2: size trigger. When the consumer's append makes the buffer hold at least
\* buffer_size packets, the same step spawns and registers exactly one save task
\* whose batch has exactly buffer_size packets, and leaves the buffer empty.
C2_SizeTriggerFlush ==
    [][(ConsumerStep /\ appended' # appended /\ Len(buffer) + 1 >= BufferSize)
         => /\ Len(tasks') = Len(tasks) + 1
            /\ Len(tasks'[Len(tasks')].batch) = BufferSize
            /\ tasks'[Len(tasks')].state = "calling"
            /\ active_saves' = active_saves \cup {Len(tasks')}
            /\ buffer' = <<>>]_vars

C2_Witness ==
    /\ buffer = <<>>
    /\ running
    /\ \E t \in DOMAIN tasks : Len(tasks[t].batch) = BufferSize

\* C3: time trigger. While the service runs, a non-empty buffer is eventually
\* swapped out (or the service stops running), and the ticker swaps exactly when
\* the buffer is non-empty and flush_interval has passed since the last flush,
\* handing over the whole buffer as one batch.
C3_TimeTriggerFlush ==
    /\ (running /\ buffer # <<>>) ~> (buffer = <<>> \/ ~running)
    /\ [][monitor_flush =>
            IF buffer # <<>> /\ time_since >= FlushIntervalTicks
            THEN /\ Len(tasks') = Len(tasks) + 1
                 /\ tasks'[Len(tasks')].batch = buffer
                 /\ active_saves' = active_saves \cup {Len(tasks')}
                 /\ buffer' = <<>>
            ELSE /\ tasks' = tasks
                 /\ buffer' = buffer]_vars

C3_Witness ==
    /\ running
    /\ buffer = <<>>
    /\ \E t \in DOMAIN tasks :
           /\ Len(tasks[t].batch) < BufferSize
           /\ tasks[t].state = "saved"

\* C4: no early time-trigger flush. When no flush has happened since the
\* service started, the ticker does not swap a buffer that has not reached
\* buffer_size out before flush_interval has passed since the start.
C4_NoEarlyTimerFlush ==
    [][(monitor_flush /\ tasks = <<>> /\ tasks' # tasks)
         => uptime >= FlushIntervalTicks]_vars

\* C5: race-end flush. Processing a record with is_race_on = 0 directly after
\* one with is_race_on = 1, with a non-empty buffer, swaps the whole buffer out
\* into one new save task in that step.
C5_RaceEndFlush ==
    [][(ConsumerStep /\ parse(Head(queue)) # NoPacket
          /\ cur_race = 1 /\ parse(Head(queue)).is_race_on = 0 /\ buffer # <<>>)
         => /\ Len(tasks') = Len(tasks) + 1
            /\ tasks'[Len(tasks')].batch = buffer
            /\ buffer' = <<>>]_vars

\* Ids of the packets held by the buffer or by any batch ever swapped out.
Held == Ids(buffer) \cup UNION {Ids(tasks[t].batch) : t \in DOMAIN tasks}

AllHeldInRace ==
    /\ \A i \in 1..Len(buffer) : buffer[i].is_race_on = 1
    /\ \A t \in DOMAIN tasks :
           \A i \in 1..Len(tasks[t].batch) : tasks[t].batch[i].is_race_on = 1

\* C6: a decoded record is appended iff its is_race_on is 1. Every packet in
\* the buffer and in every batch has is_race_on = 1; a consumer step takes the
\* record into the buffer (or the batch swapped out in that step) exactly when
\* its is_race_on is 1, and a record with is_race_on = 0 leaves the buffer as
\* it is.
C6_AppendIffInRace ==
    /\ []AllHeldInRace
    /\ [][(ConsumerStep /\ parse(Head(queue)) # NoPacket)
            => LET packet == parse(Head(queue)) IN
               /\ (packet.id \in Held' \ Held) <=> (packet.is_race_on = 1)
               /\ (packet.is_race_on = 1) =>
                      \/ buffer' = <<>>
                      \/ /\ Len(buffer') = Len(buffer) + 1
                         /\ SubSeq(buffer', 1, Len(buffer)) = buffer
                         /\ buffer'[Len(buffer')].id = packet.id
               /\ (packet.is_race_on = 0) =>
                      (buffer' = buffer /\ Held' = Held)]_vars

C6_Witness ==
    /\ cur_race = 0
    /\ prev_race = 1
    /\ buffer # <<>>

HasEvent(kind) == \E i \in 1..Len(events) : events[i].kind = kind

\* C7: RaceStarted is emitted for a record exactly when the record before it had
\* is_race_on = 0 (or there was none) and this one has is_race_on = 1, and the
\* monitor's stored state is the is_race_on of the last record it saw.
C7_RaceStarted ==
    /\ cur_race # None =>
           (HasEvent("RaceStarted") <=>
                ((prev_race = None \/ prev_race = 0) /\ cur_race = 1))
    /\ last_is_race_on = (IF cur_race = None THEN 0 ELSE cur_race)

C7_Witness ==
    /\ prev_race = 0
    /\ cur_race = 1
    /\ HasEvent("RaceStarted")

\* C8: RaceEnded is emitted for a record exactly when the record before it had
\* is_race_on = 1 and this one has is_race_on = 0.
C8_RaceEnded ==
    cur_race # None =>
        (HasEvent("RaceEnded") <=> (prev_race = 1 /\ cur_race = 0))

\* C9: flush() returns only after every save task that was registered when it
\* gathered, its own final swap's task included, has finished, and none of them
\* is registered any more; while it waits, every registered task is one it
\* waits for.
C9_FlushWaitsForInflight ==
    /\ sup = "gathering" => active_saves \subseteq gathered
    /\ sup \in {"flushed", "closed"} =>
           \A t \in gathered : Finished(t) /\ t \notin active_saves

C9_Witness ==
    /\ sup = "flushed"
    /\ Cardinality(gathered) >= 2
    /\ \E t \in gathered : tasks[t].attempt > 0

\* C10: save retry. A save task makes at most 3 calls, always with the batch
\* it was spawned with, sleeps for a retry only after the first or second
\* failure, gives up only after the third, and its batch is in the sink exactly
\* once if it succeeded and not at all otherwise; in particular a task that
\* failed twice and then succeeded inserted its batch exactly once.
C10_SaveRetry ==
    /\ [](\A t \in DOMAIN tasks :
            /\ tasks[t].attempt + 1 <= 3
            /\ tasks[t].state = "sleeping" => tasks[t].attempt + 1 < 3
            /\ tasks[t].state = "dropped" => tasks[t].attempt + 1 = 3
            /\ CopiesIn(tasks[t].batch, sink) =
                   (IF tasks[t].state = "saved" THEN 1 ELSE 0))
    /\ [][\A t \in DOMAIN tasks :
            /\ tasks'[t].batch = tasks[t].batch
            /\ tasks[t].state = "saved" => tasks'[t] = tasks[t]]_vars

C10_Witness ==
    \E t \in DOMAIN tasks :
        /\ tasks[t].state = "saved"
        /\ tasks[t].attempt = 2
        /\ CopiesIn(tasks[t].batch, sink) = 1

\* C11: in-flight set. A save task is in _active_saves from the flush that
\* spawns it at least until it has finished; only finished tasks are removed,
\* saved and dropped alike, and a finished task does not stay registered; the
\* step in which a task gives up after its third failure leaves the buffer
\* alone, and no packet of a dropped batch is in the buffer.
C11_InFlightSet ==
    /\ [](\A t \in DOMAIN tasks :
            /\ ~Finished(t) => t \in active_saves
            /\ tasks[t].state = "dropped" =>
                   Ids(tasks[t].batch) \cap Ids(buffer) = {})
    /\ [][/\ \A t \in active_saves \ active_saves' : Finished(t)
          /\ \A t \in DOMAIN tasks' \ DOMAIN tasks : t \in active_saves'
          /\ \A t \in DOMAIN tasks :
                 (tasks[t].state # "dropped" /\ tasks'[t].state = "dropped")
                     => buffer' = buffer]_vars
    /\ []<>(\A t \in active_saves : ~Finished(t))

C11_Witness ==
    /\ running
    /\ active_saves = {}
    /\ \E t \in DOMAIN tasks : tasks[t].state = "dropped"

QueuedIds == [i \in 1..Len(queue) |-> queue[i].id]

\* C12: drop-tail. The queue never holds more than its capacity; a datagram
\* that arrives at a full queue leaves the queue as it is, one that arrives at
\* a queue with room is appended behind the queued ones; and while the
\* consumer has not started, the queue holds exactly the first
\* min(received, capacity) datagrams, in order.
C12_DropTail ==
    /\ [](Len(queue) <= QueueCapacity)
    /\ [][Receive =>
            IF Len(queue) >= QueueCapacity
            THEN queue' = queue
            ELSE /\ Len(queue') = Len(queue) + 1
                 /\ SubSeq(queue', 1, Len(queue)) = queue]_vars
    /\ [](consumer = "created" =>
            QueuedIds = [i \in 1..Min(received, QueueCapacity) |-> i])

C12_Witness ==
    /\ consumer = "created"
    /\ received > QueueCapacity
    /\ Len(queue) = QueueCapacity

\* C13: the receiver's dropped counter equals the number of datagrams
\* received minus the number enqueued.
C13_DroppedCounter == dropped_count = received - enqueued

\* C14: queue-full warnings are rate limited. A datagram logs the warning only
\* when it is dropped and at least 1 s has passed since the previous warning,
\* and a datagram dropped at least 1 s after the previous warning (or before
\* any warning) does log it.
C14_WarningRateLimit ==
    [][Receive =>
         /\ warned' => /\ Len(queue) >= QueueCapacity
                       /\ since_warning >= WarnIntervalTicks
         /\ (Len(queue) >= QueueCapacity
               /\ since_warning >= WarnIntervalTicks) => warned']_vars

C14_Witness ==
    /\ received - enqueued >= 2
    /\ warned
    /\ since_warning = 0

RECURSIVE Swapped(_)
\* The batches of the first n save tasks, concatenated in swap order.
Swapped(n) == IF n = 0 THEN <<>> ELSE Swapped(n - 1) \o tasks[n].batch

Increasing(seq) == \A i, j \in 1..Len(seq) : i < j => seq[i].id < seq[j].id

\* C15: arrival order. The queue holds the datagrams in the order they were
\* enqueued and the consumer takes the oldest; the batches in the order of
\* their swaps, followed by the buffer, hold exactly the appended packets, each
\* once, in arrival order.
C15_ArrivalOrder ==
    /\ [](/\ Increasing(queue)
          /\ Increasing(Swapped(Len(tasks)) \o buffer)
          /\ Ids(Swapped(Len(tasks)) \o buffer) = appended
          /\ \A i \in 1..Len(queue) : \A id \in appended : id < queue[i].id)
    /\ [][ConsumerStep =>
            /\ queue' = Tail(queue)
            /\ appended' \subseteq appended \cup {Head(queue).id}]_vars

C15_Witness ==
    /\ Len(tasks) >= 1
    /\ Len(tasks[1].batch) = 2
    /\ tasks[1].batch[1].id < tasks[1].batch[2].id

Supported(data) == data.length = 311 \/ data.length = 324

C17_Enrichment ==
    [][(ConsumerStep /\ parse(Head(queue)) # NoPacket
          /\ parse(Head(queue)).is_race_on = 1)
         => LET batch == IF buffer' # <<>> THEN buffer'
                         ELSE tasks'[Len(tasks')].batch IN
            batch[Len(batch)].session_id = current_session_id]_vars

\* C18: a failed session insert leaves current_session_id as it was, None or
\* an earlier id, and the session lock free.
C18_FailedInsertKeepsSession ==
    /\ [][start_session_failed =>
            /\ current_session_id' = current_session_id
            /\ session_lock' = FALSE]_vars
    /\ []~session_lock

C18_Witness ==
    /\ insert_failed
    /\ current_session_id = 1

\* C19: when the session insert fails, POST /session/start answers with
\* status "error" and never with "success".
C19_FailureReported == insert_failed => api_status = "error"

\* C20: final flush. The final flush swaps a non-empty buffer out into exactly
\* one registered save task holding all of it and does nothing to an empty one;
\* once the consumer and the ticker are cancelled nothing but that one flush
\* spawns a save task; and from then until the process exits the buffer is
\* empty and the service is not running.
C20_FinalFlush ==
    /\ [][flush =>
            IF buffer # <<>>
            THEN /\ Len(tasks') = Len(tasks) + 1
                 /\ tasks'[Len(tasks')].batch = buffer
                 /\ Len(tasks') \in active_saves'
                 /\ buffer' = <<>>
            ELSE tasks' = tasks /\ buffer' = buffer]_vars
    /\ [][(consumer = "finished" /\ Len(tasks') # Len(tasks)) =>
            (sup = "cancelling" /\ sup' # "cancelling")]_vars
    /\ [](sup \in {"gathering", "flushed", "closed"} =>
            (buffer = <<>> /\ ~running))

C20_Witness ==
    /\ sup = "closed"
    /\ uptime = 0
    /\ Len(tasks) = 2
    /\ buffer = <<>>

\* C21: shutdown ordering. The consumer ends only after the UDP socket was
\* closed, the final flush runs only after the consumer and the ticker have
\* ended, and the pool is closed only when every save task ever spawned has
\* finished, so that no save task is left to call save_batch on a closed pool;
\* once the pool is closed nothing reaches the sink any more.
C21_ShutdownOrder ==
    /\ [](/\ consumer = "finished" => ~transport_open
          /\ sup \in {"gathering", "flushed", "closed"} =>
                 (consumer = "finished" /\ ~running /\ ~transport_open)
          /\ pool = "closed" =>
                 \A t \in DOMAIN tasks : Finished(t) /\ t \notin active_saves)
    /\ [][pool = "closed" => (sink' = sink /\ tasks' = tasks)]_vars

C21_Witness ==
    /\ pool = "closed"
    /\ sup = "closed"
    /\ consumer = "finished"
    /\ Len(tasks) >= 2
    /\ \E t \in DOMAIN tasks : tasks[t].state = "saved"

\* C22: shutdown drain. Unless the drain wait timed out, the consumer is
\* cancelled only once the queue is empty: no datagram that was queued when
\* the shutdown started is left undecoded.
C22_ShutdownDrain ==
    (consumer = "finished" /\ ~drain_timed_out) => queue = <<>>

\* C23: only cancellation stops the consumer loop. The consumer leaves its
\* loop in no step other than the cancellation at shutdown; an iteration whose
\* datagram fails to decode, or in which an exception is raised, takes the
\* datagram off the queue and leaves the consumer running; while the service
\* is serving, the consumer can always take the next queued datagram; and a
\* datagram that fails to decode leaves the buffer and the monitor unchanged.
C23_OnlyCancellationStops ==
    /\ []((consumer = "running" /\ sup = "serving" /\ queue # <<>>)
             => ENABLED ConsumerStep)
    /\ [][(consumer = "running" /\ consumer' # "running")
            => (sup = "cancelling" /\ consumer' = "finished")]_vars
    /\ [][(\/ ConsumerStepRaises
           \/ (ConsumerStep /\ parse(Head(queue)) = NoPacket))
            => /\ queue' = Tail(queue)
               /\ consumer' = "running"
               /\ running' = running]_vars
    /\ [][(ConsumerStep /\ parse(Head(queue)) = NoPacket)
            => /\ buffer' = buffer
               /\ last_is_race_on' = last_is_race_on
               /\ events' = events]_vars

\* The first datagram never reached the monitor, the second was processed.
C23_Witness ==
    /\ consumer = "running"
    /\ 2 \in appended
    /\ 1 \notin appended
    /\ cur_race = 1
    /\ prev_race = None

\* C24: exit codes. A process that could not connect to the store has exited
\* with code 2; one that could not bind the UDP socket has closed the pool it
\* had opened and exited with code 3; one that shut down cleanly has exited
\* with code 0.
C24_ExitCodes ==
    /\ sup = "db_failed" => exit_code = 2
    /\ sup = "bind_failed" => (pool = "closed" /\ exit_code = 3)
    /\ sup = "closed" => exit_code = 0

\* C25: batch size. Every batch handed to a save task holds at least one and
\* at most buffer_size packets; between steps the buffer holds fewer than
\* buffer_size packets, so no flush finds more than buffer_size; and a flush
\* that finds the buffer empty, the ticker's or the final one, spawns no save
\* task and hands nothing to the sink.
C25_BatchSize ==
    /\ [](/\ Len(buffer) < BufferSize
          /\ \A t \in DOMAIN tasks :
                 /\ Len(tasks[t].batch) >= 1
                 /\ Len(tasks[t].batch) <= BufferSize)
    /\ [][((monitor_flush \/ flush) /\ buffer = <<>>)
            => /\ tasks' = tasks
               /\ active_saves' = active_saves
               /\ sink' = sink]_vars

\* A full batch was swapped by size, then the final flush found nothing.
C25_Witness ==
    /\ sup = "flushed"
    /\ Len(tasks) = 1
    /\ Len(tasks[1].batch) = BufferSize
    /\ buffer = <<>>

\* C26: load_config. The view model starts in IDLE. A load_config call made
\* in RACING or SAVING emits one error signal, does not call the validator and
\* leaves the state as it is; made in any other state it calls the validator
\* once and ends in READY when no error came back and in ERROR otherwise.
C26_LoadConfig ==
    /\ vm_state = "IDLE"
    /\ [][LoadConfig =>
            IF vm_state \in {"RACING", "SAVING"}
            THEN /\ error_occurred' = 1
                 /\ validate_calls' = <<>>
                 /\ vm_state' = vm_state
                 /\ state_changed' = <<>>
            ELSE /\ Len(validate_calls') = 1
                 /\ vm_state' = IF validate_calls'[1] = 0 THEN "READY"
                                 ELSE "ERROR"]_vars

\* A load_config call was refused during a session.
C26_Witness ==
    /\ vm_state = "RACING"
    /\ error_occurred = 1
    /\ validate_calls = <<>>
    /\ facade_calls = <<>>
    /\ ~vm_closed

Count(calls, name) == Cardinality({i \in 1..Len(calls) : calls[i] = name})

\* C27: toggle_session. In READY it calls start_tracking once and ends in
\* RACING; in RACING it emits SAVING first, calls stop_tracking once and ends
\* in READY; if the facade call raises, it ends in ERROR instead; in IDLE,
\* SAVING and ERROR it calls nothing on the facade and leaves the state as it
\* is.
C27_ToggleSession ==
    [][ToggleSession =>
         IF vm_state = "READY"
         THEN /\ facade_calls' = <<"start_tracking">>
              /\ vm_state' = IF facade_raised' THEN "ERROR" ELSE "RACING"
         ELSE IF vm_state = "RACING"
         THEN /\ facade_calls' = <<"stop_tracking">>
              /\ state_changed' =
                     <<"SAVING", IF facade_raised' THEN "ERROR" ELSE "READY">>
              /\ vm_state' = IF facade_raised' THEN "ERROR" ELSE "READY"
         ELSE /\ facade_calls' = <<>>
              /\ vm_state' = vm_state
              /\ state_changed' = <<>>]_vars

\* A session was stopped: SAVING, one stop_tracking, READY.
C27_Witness ==
    /\ vm_state = "READY"
    /\ state_changed = <<"SAVING", "READY">>
    /\ facade_calls = <<"stop_tracking">>
    /\ ~facade_raised

\* C28: shutdown. A shutdown call makes exactly one cleanup call on the
\* facade whatever the state, and in RACING it calls stop_tracking first and
\* cleanup after it.
C28_ShutdownCleanup ==
    [][ViewClosed =>
         /\ Count(facade_calls', "cleanup") = 1
         /\ vm_state = "RACING" =>
                facade_calls' = <<"stop_tracking", "cleanup">>
         /\ vm_state # "RACING" => facade_calls' = <<"cleanup">>]_vars

\* Copies of packet id held by the batches of all save tasks ever spawned.
BatchCount(id) ==
    SumOver(DOMAIN tasks, [t \in DOMAIN tasks |-> CountIn(id, tasks[t].batch)])

\* C29: atomic swap. Whatever the interleaving of size-triggered,
\* time-triggered and final flushes, save failures included, every appended
\* packet is either once in the buffer or once in the batch of exactly one
\* save task, never both and never twice; a step that takes packets out of
\* the buffer spawns exactly one registered save task holding all of them; and
\* the step in which the consumer is cancelled changes neither the buffer nor
\* the save tasks.
C29_AtomicSwap ==
    /\ [](\A id \in appended : CountIn(id, buffer) + BatchCount(id) = 1)
    /\ [][/\ Len(tasks') <= Len(tasks) + 1
          /\ Ids(buffer) \ Ids(buffer') # {} =>
                 /\ Len(tasks') = Len(tasks) + 1
                 /\ Ids(buffer) \subseteq Ids(tasks'[Len(tasks')].batch)
                 /\ Len(tasks') \in active_saves'
                 /\ buffer' = <<>>
          /\ ConsumerCancelled => (buffer' = buffer /\ tasks' = tasks)]_vars

\* A time-triggered flush and the final flush each took one packet, and a
\* save failed in between.
C29_Witness ==
    /\ sup \in {"gathering", "flushed"}
    /\ failures >= 1
    /\ Len(tasks) = 2
    /\ Len(tasks[1].batch) = 1
    /\ Len(tasks[2].batch) = 1
    /\ uptime = 0

Pending == {t \in DOMAIN tasks : ~Finished(t)}

\* C30: store outages do not stall ingestion. A step of the consumer or the
\* ticker that spawns a save task ends with that task still to make its first
\* call and with nothing new in the sink; while save tasks are pending,
\* retrying or failing, the consumer can take the next queued datagram and the
\* ticker can run; and a step in which save_batch fails changes nothing of
\* the consumer, the ticker, the queue or the buffer.
C30_OutageDoesNotStall ==
    /\ []((Pending # {} /\ consumer = "running" /\ sup = "serving")
             => /\ queue # <<>> => ENABLED ConsumerStep
                /\ ENABLED monitor_flush)
    /\ [][((ConsumerStep \/ monitor_flush) /\ Len(tasks') > Len(tasks))
            => /\ tasks'[Len(tasks')].state = "calling"
               /\ tasks'[Len(tasks')].attempt = 0
               /\ sink' = sink]_vars
    /\ [][failures' > failures
            => /\ consumer' = consumer
               /\ running' = running
               /\ queue' = queue
               /\ buffer' = buffer]_vars

\* The first save task failed at least a tick ago and is calling again, and a
\* second batch was swapped out since the latest tick.
C30_Witness ==
    /\ consumer = "running"
    /\ Len(tasks) = 2
    /\ tasks[1].state = "calling"
    /\ tasks[1].attempt = 1
    /\ time_since = 0
    /\ tasks[2].attempt = 0

\* The requests that hold the session lock.
Inserting == {c \in CallerIds : callers[c] = "inserting"}

\* The copy the latest appending step put into the buffer or, when that step
\* swapped, into the newest batch.
LatestAppended ==
    IF buffer # <<>> THEN buffer[Len(buffer)]
    ELSE tasks[Len(tasks)].batch[Len(tasks[Len(tasks)].batch)]

\* C31: session registry. At most one request holds the session lock, and
\* the lock is held exactly while a set_session awaits its insert; a
\* set_session whose insert returns an id leaves exactly that id as the
\* current session id, a stop_session leaves None; while a request holds the
\* lock the id changes only when that request completes, so overlapping
\* requests take effect one after the other in the order they got the lock;
\* and a packet appended while the id is None carries no session id.
C31_SessionRegistry ==
    /\ [](/\ Cardinality(Inserting) <= 1
          /\ session_lock <=> Inserting # {})
    /\ [][\A c \in CallerIds :
            /\ \A new_id \in SessionIds :
                   create_session_returned(c, new_id)
                       => current_session_id' = new_id
            /\ (stop_session_resumed(c)
                  \/ (stop_session_called(c) /\ callers' = callers))
                   => current_session_id' = None]_vars
    /\ [][(Inserting # {} /\ current_session_id' # current_session_id)
            => \E c \in Inserting : callers'[c] = "idle"]_vars
    /\ [][(ConsumerStep /\ appended' # appended /\ current_session_id = None)
            => LatestAppended'.session_id = None]_vars

\* A stop_session waits for the lock behind a set_session that is inserting,
\* after an earlier set_session had succeeded.
C31_Witness ==
    /\ session_lock
    /\ current_session_id = 1
    /\ \E c \in CallerIds : callers[c] = "stop_waiting"
    /\ \E c \in CallerIds : callers[c] = "inserting"

\* C32: every record the decoder produces, and so every record the monitor
\* sees, has is_race_on 0 or 1.
C32_RaceFlagDomain ==
    /\ \A i \in 1..Len(queue) :
           parse(queue[i]) # NoPacket => parse(queue[i]).is_race_on \in {0, 1}
    /\ cur_race \in {None, 0, 1}

\* C33: the in-flight save set is bounded independently of the length of the
\* run. A run of this model swaps out at most MaxDatagrams batches, so a bound
\* that does not grow with the run keeps the set below that number while the
\* service runs.
C33_BoundedInFlight == running => Cardinality(active_saves) < MaxDatagrams

\* C34: retry backoff. Every failed attempt of a save task, the third
\* included, is followed by a wait of 0.5 s times the number of the attempt,
\* and no attempt starts before the wait after the previous failure is over.
C34_RetryBackoff ==
    /\ [][\A t \in DOMAIN tasks :
            (tasks[t].state = "calling" /\ failures' > failures
               /\ tasks'[t] # tasks[t])
                => /\ tasks'[t].state = "sleeping"
                   /\ tasks'[t].timer =
                          BackoffUnitTicks * (tasks[t].attempt + 1)]_vars
    /\ [][\A t \in DOMAIN tasks :
            (tasks[t].state = "sleeping" /\ tasks'[t].state = "calling")
                => tasks[t].timer = 0]_vars

C36_TaskDoneAccounting == unfinished_tasks = Len(queue)

\* The packets, with their session ids, in the buffer and in every batch.
HeldPackets ==
    {buffer[i] : i \in 1..Len(buffer)}
        \cup UNION {{tasks[t].batch[i] : i \in 1..Len(tasks[t].batch)} :
                        t \in DOMAIN tasks}

\* C37: a packet's session_id is fixed when it is appended. No step changes
\* the session id of a packet that is in the buffer or in a batch, and the
\* session calls of the API change neither the buffer nor any batch; so one
\* batch can hold packets with different session ids.
C37_SessionIdFixed ==
    /\ [][HeldPackets \subseteq HeldPackets']_vars
    /\ [][SessionApi => (buffer' = buffer /\ tasks' = tasks)]_vars

\* One batch holds packets appended under different session ids.
C37_Witness ==
    \E t \in DOMAIN tasks :
        /\ Len(tasks[t].batch) = 2
        /\ tasks[t].batch[1].session_id # tasks[t].batch[2].session_id

\* C38: shutdown terminates. Once the shutdown has started, and with every
\* save_batch call returning or raising, the pool is eventually closed, with
\* every save task finished after at most three attempts, also when every
\* call fails.
C38_ShutdownTerminates ==
    (sup = "cancelling") ~>
        (/\ sup = "closed"
         /\ pool = "closed"
         /\ \A t \in DOMAIN tasks :
                Finished(t) /\ tasks[t].attempt + 1 <= max_retries)

\* The process has shut down although every save_batch call failed.
C38_Witness ==
    /\ sup = "closed"
    /\ tasks # <<>>
    /\ \A t \in DOMAIN tasks : tasks[t].state = "dropped"
    /\ sink = EmptyBag

\* C39: view model and core stay consistent. After any sequence of
\* load_config, toggle_session and shutdown calls, facade calls that raise
\* included, the facade is tracking only while the view model state is RACING
\* or SAVING, and start_tracking is never called a second time without a
\* stop_tracking in between.
C39_FacadeConsistent ==
    /\ [](is_running => vm_state \in {"RACING", "SAVING"})
    /\ [][(ToggleSession /\ facade_calls' = <<"start_tracking">>) =>
             last_tracking_call # "start_tracking"]_vars

==============================================================================
